---- MODULE Spec2Model ----
(***************************************************************************)
(* Model of app.py: the POST /get_recommendations endpoint, the resolver   *)
(* get_course_recommendations (credential lookup, model call, extraction   *)
(* of the candidate JSON string, json.loads, the two except clauses) and   *)
(* the fallback generator get_fallback_data.                               *)
(*                                                                         *)
(* Texts are TLA+ strings; Len, SubSeq and \o act on them character by     *)
(* character.  The grave accent (U+0060) cannot be written inside a module *)
(* string, so the character BT stands for it everywhere: FENCE is the      *)
(* triple-grave-accent marker of the source.                               *)
(***************************************************************************)
EXTENDS Integers, Sequences, FiniteSets, TLC

(***************************************************************************)
(* Bounds of the model.                                                    *)
(***************************************************************************)
NumThreads == 2
MaxChunks == 7
MaxPayloadChunks == 3

(***************************************************************************)
(* State.  The server: the process environment, the key genai.configure    *)
(* last stored (module-level state of the client library), and for each    *)
(* worker thread the request it is handling.  The remaining variables hold *)
(* one reply text and one payload for the checks of the extraction alone.  *)
(***************************************************************************)
VARIABLES
    environ,        \* os.environ
    genai_api_key,  \* the key set by genai.configure, "" before the first call
    pc,             \* per thread: "idle", "awaiting" (inside generate_content), "done"
    req,            \* per thread: the request body
    sent,           \* per thread: the prompt passed to generate_content
    reply,          \* per thread: what the model call produced
    resp,           \* per thread: the HTTP response
    origin,         \* per thread: which return statement built the result
    lookups,        \* per thread: calls of initialize_gemini for this request
    calls,          \* per thread: calls of generate_content for this request
    fallbacks,      \* per thread: calls of get_fallback_data for this request
    raw, nchunks, stage, json_str,
    payload, loaded

svars == <<environ, genai_api_key, pc, req, sent, reply, resp, origin, lookups, calls, fallbacks>>
evars == <<raw, nchunks, stage, json_str>>
fvars == <<payload, loaded>>
vars == <<svars, evars, fvars>>

Threads == 1..NumThreads

(***************************************************************************)
(* Python str primitives used by app.py.                                   *)
(***************************************************************************)
BT == "~"
FENCE == BT \o BT \o BT
FENCE_JSON == FENCE \o "json"

\* the characters str.strip() removes (those a module string can hold)
PyWhitespace == {" ", "\t", "\n", "\r", "\f"}

CharAt(s, i) == IF i >= 1 /\ i <= Len(s) THEN SubSeq(s, i, i) ELSE ""

\* s[from:] scanned left to right: least index >= from where sub occurs, 0 if none
RECURSIVE Find(_, _, _)
Find(s, sub, from) ==
    IF from + Len(sub) - 1 > Len(s) THEN 0
    ELSE IF SubSeq(s, from, from + Len(sub) - 1) = sub THEN from
    ELSE Find(s, sub, from + 1)

\* Python: sub in s
Contains(s, sub) == Find(s, sub, 1) # 0

\* Python: s.split(sep), the list of pieces between non-overlapping
\* occurrences of sep taken left to right (1-based here, 0-based in Python)
RECURSIVE Split(_, _)
Split(s, sep) ==
    LET p == Find(s, sep, 1)
    IN  IF p = 0 THEN <<s>>
        ELSE <<SubSeq(s, 1, p - 1)>> \o Split(SubSeq(s, p + Len(sep), Len(s)), sep)

RECURSIVE LStrip(_)
LStrip(s) ==
    IF Len(s) > 0 /\ CharAt(s, 1) \in PyWhitespace THEN LStrip(SubSeq(s, 2, Len(s))) ELSE s

RECURSIVE RStrip(_)
RStrip(s) ==
    IF Len(s) > 0 /\ CharAt(s, Len(s)) \in PyWhitespace
    THEN RStrip(SubSeq(s, 1, Len(s) - 1)) ELSE s

\* Python: s.strip()
Strip(s) == RStrip(LStrip(s))

(***************************************************************************)
(* Extraction of the candidate JSON string, app.py lines 81-86.            *)
(***************************************************************************)
ExtractUntaggedFirst(response_text) ==
    IF Contains(response_text, FENCE)
    THEN Strip(Split(response_text, FENCE)[2])
    ELSE response_text

ExtractTaggedOnly(response_text) ==
    IF Contains(response_text, FENCE_JSON)
    THEN Strip(Split(Split(response_text, FENCE_JSON)[2], FENCE)[1])
    ELSE response_text

ExtractJson(response_text) ==
    IF Contains(response_text, FENCE_JSON)
    THEN Strip(Split(Split(response_text, FENCE_JSON)[2], FENCE)[1])
    ELSE IF Contains(response_text, FENCE)
    THEN Strip(Split(response_text, FENCE)[2])
    ELSE response_text

(***************************************************************************)
(* json.loads (line 89) on the documents the model feeds it: objects,      *)
(* arrays, strings without backslash escapes, numbers and the literals,    *)
(* scanned as json.decoder scans them.  A result carries the Python type   *)
(* of the value, its top-level keys when it is a dict, and the text of the *)
(* document without insignificant whitespace (canon); a failure carries    *)
(* the JSONDecodeError message and position.                               *)
(***************************************************************************)
JsonWs == {" ", "\t", "\n", "\r"}
Digits == {"0", "1", "2", "3", "4", "5", "6", "7", "8", "9"}
ControlChars == {"\t", "\n", "\r", "\f"}

Fail(msg, i) ==
    [ok |-> FALSE, pos |-> i, type |-> "", keys |-> {}, canon |-> "", msg |-> msg]

Value(type, keys, canon, next) ==
    [ok |-> TRUE, pos |-> next, type |-> type, keys |-> keys, canon |-> canon, msg |-> ""]

RECURSIVE SkipWs(_, _)
SkipWs(s, i) == IF CharAt(s, i) \in JsonWs THEN SkipWs(s, i + 1) ELSE i

RECURSIVE SpanDigits(_, _)
SpanDigits(s, i) == IF CharAt(s, i) \in Digits THEN SpanDigits(s, i + 1) ELSE i

StartsAt(s, i, word) ==
    i + Len(word) - 1 <= Len(s) /\ SubSeq(s, i, i + Len(word) - 1) = word

\* NUMBER_RE: the index after the longest match at i, 0 when none
ScanNumber(s, i) ==
    LET j == IF CharAt(s, i) = "-" THEN i + 1 ELSE i
        intEnd == IF CharAt(s, j) = "0" THEN j + 1
                  ELSE IF CharAt(s, j) \in Digits THEN SpanDigits(s, j + 1)
                  ELSE 0
        fracEnd == IF intEnd # 0 /\ CharAt(s, intEnd) = "." /\ CharAt(s, intEnd + 1) \in Digits
                   THEN SpanDigits(s, intEnd + 1) ELSE intEnd
        k == IF CharAt(s, fracEnd + 1) \in {"+", "-"} THEN fracEnd + 2 ELSE fracEnd + 1
    IN  IF fracEnd # 0 /\ CharAt(s, fracEnd) \in {"e", "E"} /\ CharAt(s, k) \in Digits
        THEN SpanDigits(s, k) ELSE fracEnd

\* py_scanstring from the opening quote at i
RECURSIVE ScanChars(_, _, _)
ScanChars(s, i, j) ==
    IF j > Len(s) THEN Fail("Unterminated string starting at", i)
    ELSE IF CharAt(s, j) = "\"" THEN Value("str", {}, SubSeq(s, i, j), j + 1)
    ELSE IF CharAt(s, j) \in ControlChars THEN Fail("Invalid control character at", j)
    ELSE ScanChars(s, i, j + 1)

ScanString(s, i) == ScanChars(s, i, i + 1)

RECURSIVE ParseValue(_, _)
RECURSIVE ParseMembers(_, _, _, _)
RECURSIVE ParseItems(_, _, _)

\* JSONObject, from the quote of a property name at q
ParseMembers(s, q, keys, acc) ==
    LET k == ScanString(s, q)
        c == SkipWs(s, k.pos)
        v0 == SkipWs(s, c + 1)
        v == ParseValue(s, v0)
        e == SkipWs(s, v.pos)
        n == SkipWs(s, e + 1)
        acc2 == acc \o (IF acc = "{" THEN "" ELSE ",") \o k.canon \o ":" \o v.canon
        keys2 == keys \cup {SubSeq(s, q + 1, k.pos - 2)}
    IN  IF ~k.ok THEN k
        ELSE IF CharAt(s, c) # ":" THEN Fail("Expecting ':' delimiter", c)
        ELSE IF ~v.ok THEN v
        ELSE IF CharAt(s, e) = "}" THEN Value("dict", keys2, acc2 \o "}", e + 1)
        ELSE IF CharAt(s, e) # "," THEN Fail("Expecting ',' delimiter", e)
        ELSE IF CharAt(s, n) # "\""
             THEN Fail("Expecting property name enclosed in double quotes", n)
        ELSE ParseMembers(s, n, keys2, acc2)

\* JSONObject, after the opening brace
ParseObject(s, i) ==
    LET j == SkipWs(s, i)
    IN  IF CharAt(s, j) = "}" THEN Value("dict", {}, "{}", j + 1)
        ELSE IF CharAt(s, j) # "\""
             THEN Fail("Expecting property name enclosed in double quotes", j)
        ELSE ParseMembers(s, j, {}, "{")

\* JSONArray, from the first character of an item at j
ParseItems(s, j, acc) ==
    LET v == ParseValue(s, j)
        e == SkipWs(s, v.pos)
        acc2 == acc \o (IF acc = "[" THEN "" ELSE ",") \o v.canon
    IN  IF ~v.ok THEN v
        ELSE IF CharAt(s, e) = "]" THEN Value("list", {}, acc2 \o "]", e + 1)
        ELSE IF CharAt(s, e) # "," THEN Fail("Expecting ',' delimiter", e)
        ELSE ParseItems(s, SkipWs(s, e + 1), acc2)

\* JSONArray, after the opening bracket
ParseArray(s, i) ==
    LET j == SkipWs(s, i)
    IN  IF CharAt(s, j) = "]" THEN Value("list", {}, "[]", j + 1)
        ELSE ParseItems(s, j, "[")

\* scanner.scan_once at i
ParseValue(s, i) ==
    LET c == CharAt(s, i)
        num == ScanNumber(s, i)
    IN  IF c = "\"" THEN ScanString(s, i)
        ELSE IF c = "{" THEN ParseObject(s, i + 1)
        ELSE IF c = "[" THEN ParseArray(s, i + 1)
        ELSE IF StartsAt(s, i, "null") THEN Value("NoneType", {}, "null", i + 4)
        ELSE IF StartsAt(s, i, "true") THEN Value("bool", {}, "true", i + 4)
        ELSE IF StartsAt(s, i, "false") THEN Value("bool", {}, "false", i + 5)
        ELSE IF num # 0 THEN Value("number", {}, SubSeq(s, i, num - 1), num)
        ELSE IF StartsAt(s, i, "NaN") THEN Value("number", {}, "NaN", i + 3)
        ELSE IF StartsAt(s, i, "Infinity") THEN Value("number", {}, "Infinity", i + 8)
        ELSE IF StartsAt(s, i, "-Infinity") THEN Value("number", {}, "-Infinity", i + 9)
        ELSE Fail("Expecting value", i)

RECURSIVE CountNewlines(_, _)
CountNewlines(s, n) ==
    IF n = 0 THEN 0
    ELSE (IF CharAt(s, n) = "\n" THEN 1 ELSE 0) + CountNewlines(s, n - 1)

RECURSIVE LastNewline(_, _)
LastNewline(s, n) ==
    IF n = 0 THEN 0 ELSE IF CharAt(s, n) = "\n" THEN n ELSE LastNewline(s, n - 1)

\* str(JSONDecodeError(msg, doc, pos)), pos counted from 0 as Python does
DecodeErrorText(s, msg, i) ==
    msg \o ": line " \o ToString(CountNewlines(s, i - 1) + 1)
        \o " column " \o ToString(i - LastNewline(s, i - 1))
        \o " (char " \o ToString(i - 1) \o ")"

\* the end of decode: v is the value scanned after the leading whitespace
DecodeEnd(s, v, end) ==
    IF ~v.ok THEN [v EXCEPT !.msg = DecodeErrorText(s, v.msg, v.pos)]
    ELSE IF end # Len(s) + 1 THEN Fail(DecodeErrorText(s, "Extra data", end), end)
    ELSE [v EXCEPT !.pos = end]

DecodeValue(s, v) == DecodeEnd(s, v, SkipWs(s, v.pos))

\* JSONDecoder.decode: one value between optional whitespace, nothing after
Loads(s) == DecodeValue(s, ParseValue(s, SkipWs(s, 1)))

(***************************************************************************)
(* Results of get_course_recommendations.  A result is the Python object   *)
(* the function returns: its type, its top-level keys when it is a dict,   *)
(* and its contents.  The contents of a parsed reply are carried by canon; *)
(* those of a result the code builds are carried by the fields it sets.    *)
(***************************************************************************)
\* a mapping (os.environ, the request body) as a set of <<key, value>> pairs
Has(mapping, key) == \E kv \in mapping : kv[1] = key
Get(mapping, key, default) ==
    IF Has(mapping, key) THEN (CHOOSE kv \in mapping : kv[1] = key)[2] ELSE default

ErrorResultOverFallback(message) ==
    [type |-> "dict", keys |-> {"error", "recommendations", "roadmap", "additional_tips"},
     canon |-> "", error |-> message,
     recommendations |-> <<>>, roadmap |-> <<>>, additional_tips |-> ""]

ErrorResult(message) ==
    [type |-> "dict", keys |-> {"error"}, canon |-> "", error |-> message,
     recommendations |-> <<>>, roadmap |-> <<>>, additional_tips |-> ""]

ParsedResult(v) ==
    [type |-> v.type, keys |-> v.keys, canon |-> v.canon, error |-> "",
     recommendations |-> <<>>, roadmap |-> <<>>, additional_tips |-> ""]

UpperLetters == "ABCDEFGHIJKLMNOPQRSTUVWXYZ"
LowerLetters == "abcdefghijklmnopqrstuvwxyz"

LowerChar(c) ==
    LET i == Find(UpperLetters, c, 1)
    IN  IF i = 0 THEN c ELSE CharAt(LowerLetters, i)

\* Python: s.lower(), on ASCII text
RECURSIVE Lower(_)
Lower(s) == IF s = "" THEN "" ELSE LowerChar(CharAt(s, 1)) \o Lower(SubSeq(s, 2, Len(s)))

Course(course_name, platform, cost, duration, description, url, skill_level) ==
    [course_name |-> course_name, platform |-> platform, cost |-> cost,
     duration |-> duration, description |-> description, url |-> url,
     skill_level |-> skill_level]

Stage(name, description, estimated_time, key_skills, resources) ==
    [stage |-> name, description |-> description, estimated_time |-> estimated_time,
     key_skills |-> key_skills, resources |-> resources]

\* a fallback payload without its roadmap
get_fallback_data_courses_only(subject, skill_level) ==
    [type |-> "dict", keys |-> {"recommendations"}, canon |-> "", error |-> "",
     recommendations |-> <<
        Course(subject \o " for " \o skill_level \o "s", "Coursera", "$49.99", "8 weeks",
               "", "https://coursera.org", skill_level) >>,
     roadmap |-> <<>>, additional_tips |-> ""]

\* the subject kept in one module-level variable that every request overwrites
SharedSubject ==
    LET busy == {t \in Threads : pc[t] # "idle"}
    IN  IF busy = {} THEN ""
        ELSE Get(req[CHOOSE t \in busy : \A u \in busy : u <= t].data, "subject", "")

get_fallback_data_shared(subject, skill_level) ==
    [type |-> "dict",
     keys |-> {"recommendations", "roadmap", "additional_tips"},
     canon |-> "", error |-> "",
     recommendations |-> <<
        Course(SharedSubject \o " for " \o skill_level \o "s", "Coursera", "$49.99",
               "8 weeks", "", "https://coursera.org", skill_level) >>,
     roadmap |-> <<>>, additional_tips |-> ""]

\* lines 106-162
get_fallback_data(subject, skill_level) ==
    [type |-> "dict",
     keys |-> {"recommendations", "roadmap", "additional_tips"},
     canon |-> "",
     error |-> "",
     recommendations |-> <<
        Course(subject \o " for " \o skill_level \o "s", "Coursera", "$49.99", "8 weeks",
               "A comprehensive introduction to " \o subject \o " designed for "
                   \o Lower(skill_level) \o " learners.",
               "https://coursera.org", skill_level),
        Course("Advanced " \o subject, "Udemy", "$29.99", "10 weeks",
               "Take your " \o subject \o " skills to the next level with practical projects.",
               "https://udemy.com", "Intermediate"),
        Course(subject \o " Bootcamp", "edX", "$199.99", "12 weeks",
               "Intensive " \o subject \o " training with industry experts.",
               "https://edx.org", "Advanced") >>,
     roadmap |-> <<
        Stage("Stage 1: Fundamentals",
              "Learn the basic concepts and principles of " \o subject, "4 weeks",
              <<"Basic concepts", "Terminology", "Simple applications">>,
              <<"Textbooks", "Online tutorials">>),
        Stage("Stage 2: Practical Application",
              "Apply your knowledge of " \o subject \o " to real-world problems", "6 weeks",
              <<"Problem-solving", "Tool usage", "Applied techniques">>,
              <<"Practice exercises", "Case studies">>),
        Stage("Stage 3: Advanced Topics",
              "Explore specialized areas within " \o subject, "8 weeks",
              <<"Advanced methodologies", "Specialized tools", "Research skills">>,
              <<"Academic papers", "Expert workshops">>) >>,
     additional_tips |->
        "Consider joining online communities related to " \o subject
            \o " to network with other learners and professionals."
            \o " Consistent practice is key to mastering this field."]

(***************************************************************************)
(* Exceptions: the Python class (whether except ValueError catches it) and *)
(* str(e).                                                                 *)
(***************************************************************************)
Exc(type, is_value_error, message) ==
    [type |-> type, is_value_error |-> is_value_error, msg |-> message]

NoExc == Exc("", FALSE, "")

\* lines 18-27: the key the model is configured with, or the ValueError of line 23
initialize_gemini(env) ==
    IF ~Has(env, "GOOGLE_API_KEY") \/ Get(env, "GOOGLE_API_KEY", "") = ""
    THEN [raised |-> TRUE,
          exc |-> Exc("ValueError", TRUE,
                      "Missing GOOGLE_API_KEY environment variable. Please check your .env file."),
          api_key |-> ""]
    ELSE [raised |-> FALSE, exc |-> NoExc, api_key |-> Get(env, "GOOGLE_API_KEY", "")]

\* lines 33-70
BuildPrompt(subject, budget, skill_level, time_availability, learning_style) ==
    "\n"
    \o "        Act as a course recommendation system. Provide course recommendations based on the following parameters:\n"
    \o "        - Subject: " \o subject \o "\n"
    \o "        - Budget: " \o budget \o "\n"
    \o "        - Skill Level: " \o skill_level \o "\n"
    \o "        - Time Availability: " \o time_availability \o "\n"
    \o "        - Learning Style: " \o learning_style \o "\n"
    \o "\n"
    \o "        ### **Instructions for Course URLs:**\n"
    \o "        - Only recommend courses from real platforms like **Coursera, YouTube, GeeksForGeeks, Udemy, edX, LinkedIn Learning, Pluralsight, or Khan Academy**.\n"
    \o "        - **DO NOT generate fake URLs.** Only provide real, verifiable course links.\n"
    \o "        - If you are unsure about a course URL, mention **\"URL not found\"** instead of a fake link.\n"
    \o "\n"
    \o "        Return your response in the following JSON format:\n"
    \o "        {\n"
    \o "            \"recommendations\": [\n"
    \o "                {\n"
    \o "                    \"course_name\": \"Course name\",\n"
    \o "                    \"platform\": \"Platform name\",\n"
    \o "                    \"cost\": \"Cost in USD\",\n"
    \o "                    \"duration\": \"Estimated completion time\",\n"
    \o "                    \"description\": \"Brief description\",\n"
    \o "                    \"url\": \"Real course link or 'URL not found'\",\n"
    \o "                    \"skill_level\": \"Beginner/Intermediate/Advanced\"\n"
    \o "                }\n"
    \o "            ],\n"
    \o "            \"roadmap\": [\n"
    \o "                {\n"
    \o "                    \"stage\": \"Stage 1: Fundamentals\",\n"
    \o "                    \"description\": \"Description of this stage\",\n"
    \o "                    \"estimated_time\": \"Time to complete this stage\",\n"
    \o "                    \"key_skills\": [\"skill1\", \"skill2\", \"skill3\"],\n"
    \o "                    \"resources\": [\"resource1\", \"resource2\"]\n"
    \o "                }\n"
    \o "            ],\n"
    \o "            \"additional_tips\": \"Additional learning tips\"\n"
    \o "        }\n"
    \o "        "

\* lines 91-103: the two except clauses, with the return statement taken
HandleException(e, subject, skill_level) ==
    IF e.is_value_error
    THEN IF Contains(e.msg, "API key")
         THEN [origin |-> "fallback", result |-> get_fallback_data(subject, skill_level)]
         ELSE [origin |-> "except", result |-> ErrorResult(e.msg)]
    ELSE [origin |-> "except",
          result |-> ErrorResult("Error getting recommendations: " \o e.msg)]

\* lines 89-97: v is what json.loads returned or raised
ResolveLoaded(v, subject, skill_level) ==
    IF v.ok THEN [origin |-> "loads", result |-> ParsedResult(v)]
    ELSE HandleException(Exc("JSONDecodeError", TRUE, v.msg), subject, skill_level)

\* lines 77-90 and the except clauses json.loads can reach: the outcome of
\* get_course_recommendations once generate_content has returned a reply
ResolveReply(response_text, subject, skill_level) ==
    ResolveLoaded(Loads(ExtractJson(response_text)), subject, skill_level)

\* line 176: not subject
NotSubjectNever(subject) == FALSE

NotSubject(subject) == subject = ""



(***************************************************************************)
(* The endpoint, lines 164-187, one worker thread per request.             *)
(***************************************************************************)
NoResult ==
    [type |-> "", keys |-> {}, canon |-> "", error |-> "",
     recommendations |-> <<>>, roadmap |-> <<>>, additional_tips |-> ""]

NoReq == [kind |-> "none", data |-> {}]
NoReply == [kind |-> "none", text |-> "", exc |-> NoExc]
NoResp == [status |-> 0, body |-> NoResult]

\* request bodies: JSON objects with some of the five keys, and JSON null
Requests ==
    {[kind |-> "object", data |-> {<<"subject", "Python">>, <<"skillLevel", "Beginner">>}],
     [kind |-> "object", data |-> {<<"subject", "Python">>, <<"skillLevel", "Beginner">>,
                                   <<"budget", "Free">>}],
     [kind |-> "object", data |-> {<<"subject", "Go">>, <<"budget", "$50">>,
                                   <<"skillLevel", "Advanced">>,
                                   <<"timeAvailability", "2 hours/week">>,
                                   <<"learningStyle", "Video">>}],
     [kind |-> "object", data |-> {}],
     [kind |-> "object", data |-> {<<"subject", "">>, <<"skillLevel", "Beginner">>}],
     [kind |-> "null", data |-> {}]}

\* os.environ as load_dotenv leaves it: the key unset, set empty, or set
Environments ==
    {{}, {<<"GOOGLE_API_KEY", "">>}, {<<"GOOGLE_API_KEY", "AIzaSy-example">>}}

\* texts response.text can hold
Replies ==
    {FENCE_JSON \o "\n{\"recommendations\":[],\"roadmap\":[],\"additional_tips\":\"x\"}\n" \o FENCE,
     "{\"recommendations\":[]}",
     FENCE \o "\n{\"error\":\"quota\",\"recommendations\":[]}\n" \o FENCE,
     "[1]",
     "not json at all"}

\* exceptions generate_content or response.text can raise
Faults ==
    {Exc("ServiceUnavailable", FALSE, "503 The service is currently unavailable."),
     Exc("InvalidArgument", FALSE, "400 API key not valid. Please pass a valid API key."),
     Exc("ValueError", TRUE, "Invalid operation: response.text requires a valid Part."),
     Exc("ValueError", TRUE, "API key expired. Please renew the API key.")}

Subject(r) == Get(r.data, "subject", "")
Budget(r) == Get(r.data, "budget", "")
SkillLevel(r) == Get(r.data, "skillLevel", "")
TimeAvailability(r) == Get(r.data, "timeAvailability", "")
LearningStyle(r) == Get(r.data, "learningStyle", "")

Finished(status, body, from, nlookups, nfallbacks) ==
    [pc |-> "done", resp |-> [status |-> status, body |-> body], origin |-> from,
     sent |-> "", configure |-> "", lookups |-> nlookups, calls |-> 0,
     fallbacks |-> nfallbacks]

\* lines 180-182 when initialize_gemini raised: h is what the except clause returned
Recovered(h) ==
    Finished(200, h.result, h.origin, 1, IF h.origin = "fallback" THEN 1 ELSE 0)

\* lines 29-73: m is what initialize_gemini returned or raised
Resolving(r, m) ==
    IF m.raised
    THEN Recovered(HandleException(m.exc, Subject(r), SkillLevel(r)))
    ELSE [pc |-> "awaiting", resp |-> NoResp, origin |-> "",
          sent |-> BuildPrompt(Subject(r), Budget(r), SkillLevel(r),
                               TimeAvailability(r), LearningStyle(r)),
          configure |-> m.api_key, lookups |-> 1, calls |-> 1, fallbacks |-> 0]

\* lines 166-182 up to the point where generate_content is entered (line 73),
\* or to the response when the request ends before that
recommendations(r, env) ==
    IF r.kind # "object"
    THEN \* data is None: data.get raises AttributeError, caught at line 183
         Finished(500, ErrorResult("Server error: 'NoneType' object has no attribute 'get'"),
                  "route", 0, 0)
    ELSE IF NotSubject(Subject(r))
    THEN Finished(400, ErrorResult("Subject is required"), "route", 0, 0)
    ELSE Resolving(r, initialize_gemini(env))

Init ==
    /\ environ \in Environments
    /\ genai_api_key = ""
    /\ pc = [t \in Threads |-> "idle"]
    /\ req = [t \in Threads |-> NoReq]
    /\ sent = [t \in Threads |-> ""]
    /\ reply = [t \in Threads |-> NoReply]
    /\ resp = [t \in Threads |-> NoResp]
    /\ origin = [t \in Threads |-> ""]
    /\ lookups = [t \in Threads |-> 0]
    /\ calls = [t \in Threads |-> 0]
    /\ fallbacks = [t \in Threads |-> 0]
    /\ raw = ""
    /\ nchunks = 0
    /\ stage = "compose"
    /\ json_str = ""
    /\ payload = ""
    /\ loaded = <<>>

\* thread t moves as h, the outcome of the handler so far, says
Proceed(t, r, h) ==
    /\ pc' = [pc EXCEPT ![t] = h.pc]
    /\ req' = [req EXCEPT ![t] = r]
    /\ sent' = [sent EXCEPT ![t] = h.sent]
    /\ resp' = [resp EXCEPT ![t] = h.resp]
    /\ origin' = [origin EXCEPT ![t] = h.origin]
    /\ lookups' = [lookups EXCEPT ![t] = h.lookups]
    /\ calls' = [calls EXCEPT ![t] = h.calls]
    /\ fallbacks' = [fallbacks EXCEPT ![t] = h.fallbacks]
    /\ genai_api_key' = IF h.pc = "awaiting" THEN h.configure ELSE genai_api_key

\* a request arrives at thread t and runs until it blocks or ends
Receive(t, r) ==
    /\ pc[t] = "idle"
    /\ Proceed(t, r, recommendations(r, environ))
    /\ UNCHANGED <<environ, reply, evars, fvars>>

\* a second call of generate_content after a failure
ReturnOrRetry(t, h, event) ==
    IF h.origin = "except" /\ calls[t] < 2
    THEN /\ calls' = [calls EXCEPT ![t] = calls[t] + 1]
         /\ UNCHANGED <<resp, origin, fallbacks, reply, pc>>
    ELSE /\ resp' = [resp EXCEPT ![t] = [status |-> 200, body |-> h.result]]
         /\ origin' = [origin EXCEPT ![t] = h.origin]
         /\ fallbacks' = [fallbacks EXCEPT ![t] = IF h.origin = "fallback" THEN 1 ELSE 0]
         /\ reply' = [reply EXCEPT ![t] = event]
         /\ pc' = [pc EXCEPT ![t] = "done"]
         /\ UNCHANGED calls

\* lines 90-103 and 182 after the model call: h is what
\* get_course_recommendations returned; generate_content is not called again
Return(t, h, event) ==
    /\ resp' = [resp EXCEPT ![t] = [status |-> 200, body |-> h.result]]
    /\ origin' = [origin EXCEPT ![t] = h.origin]
    /\ fallbacks' = [fallbacks EXCEPT ![t] = IF h.origin = "fallback" THEN 1 ELSE 0]
    /\ reply' = [reply EXCEPT ![t] = event]
    /\ pc' = [pc EXCEPT ![t] = "done"]
    /\ UNCHANGED calls

\* generate_content returns and response.text is text: lines 77-90, 182
ModelReplies(t, text) ==
    /\ pc[t] = "awaiting"
    /\ Return(t, ResolveReply(text, Subject(req[t]), SkillLevel(req[t])),
              [kind |-> "text", text |-> text, exc |-> NoExc])
    /\ UNCHANGED <<environ, genai_api_key, req, sent, lookups, evars, fvars>>

\* generate_content or response.text raises e: lines 91-103, 182
ModelRaises(t, e) ==
    /\ pc[t] = "awaiting"
    /\ Return(t, HandleException(e, Subject(req[t]), SkillLevel(req[t])),
              [kind |-> "raise", text |-> "", exc |-> e])
    /\ UNCHANGED <<environ, genai_api_key, req, sent, lookups, evars, fvars>>

\* the response leaves; the thread is free for the next request
Respond(t) ==
    /\ pc[t] = "done"
    /\ pc' = [pc EXCEPT ![t] = "idle"]
    /\ req' = [req EXCEPT ![t] = NoReq]
    /\ sent' = [sent EXCEPT ![t] = ""]
    /\ reply' = [reply EXCEPT ![t] = NoReply]
    /\ resp' = [resp EXCEPT ![t] = NoResp]
    /\ origin' = [origin EXCEPT ![t] = ""]
    /\ lookups' = [lookups EXCEPT ![t] = 0]
    /\ calls' = [calls EXCEPT ![t] = 0]
    /\ fallbacks' = [fallbacks EXCEPT ![t] = 0]
    /\ UNCHANGED <<environ, genai_api_key, evars, fvars>>

Next ==
    \/ \E t \in Threads, r \in Requests : Receive(t, r)
    \/ \E t \in Threads, text \in Replies : ModelReplies(t, text)
    \/ \E t \in Threads, e \in Faults : ModelRaises(t, e)
    \/ \E t \in Threads : Respond(t)

Spec == Init /\ [][Next]_vars

(***************************************************************************)
(* Properties of the endpoint.                                             *)
(***************************************************************************)
KeyConfigured == Get(environ, "GOOGLE_API_KEY", "") # ""

Done(t) == pc[t] = "done"

\* a request the handler passes on to get_course_recommendations
HasSubject(t) == req[t].kind = "object" /\ Subject(req[t]) # ""

\* the model call failed, or its reply did not parse
CallFailed(t) ==
    \/ reply[t].kind = "raise"
    \/ reply[t].kind = "text" /\ ~Loads(ExtractJson(reply[t].text)).ok

FallbackKeys == {"recommendations", "roadmap", "additional_tips"}

\* C1: the fallback payload is returned only when no credential is
\* configured; with a credential, every fault of the call or of the parsing
\* yields an error result, whatever its type or message.
C1_FallbackOnlyWithoutCredential ==
    \A t \in Threads :
        (Done(t) /\ HasSubject(t) /\ KeyConfigured) =>
            /\ origin[t] # "fallback"
            /\ resp[t].body # get_fallback_data(Subject(req[t]), SkillLevel(req[t]))
            /\ CallFailed(t) => "error" \in resp[t].body.keys

\* C2 as stated: no returned object holds both error and recommendations;
\* a returned dict has exactly one of the two.
C2_AsStated ==
    \A t \in Threads :
        (Done(t) /\ HasSubject(t) /\ resp[t].body.type = "dict") =>
            /\ ~({"error", "recommendations"} \subseteq resp[t].body.keys)
            /\ ("error" \in resp[t].body.keys) # ("recommendations" \in resp[t].body.keys)

\* C2 amended: every object the code builds itself (an error result or the
\* fallback payload) has exactly one of the two result shapes; a reply that
\* parses as JSON is returned as parsed, so the returned object holds both
\* keys only when the model's reply held both.
C2_ExclusiveUnlessParsed ==
    \A t \in Threads :
        (Done(t) /\ HasSubject(t)) =>
            /\ origin[t] # "loads" =>
                  /\ resp[t].body.type = "dict"
                  /\ resp[t].body.keys \in {{"error"}, FallbackKeys}
            /\ origin[t] = "loads" =>
                  /\ reply[t].kind = "text"
                  /\ resp[t].body = ParsedResult(Loads(ExtractJson(reply[t].text)))

\* an error result and a fallback payload have both been returned
C2_Witness ==
    \E t, u \in Threads :
        /\ Done(t) /\ origin[t] = "except" /\ resp[t].body.keys = {"error"}
        /\ Done(u) /\ origin[u] = "fallback" /\ resp[u].body.keys = FallbackKeys

\* C3 as stated: a result with recommendations also has roadmap and
\* additional_tips, for every reply that parses.
C3_AsStated ==
    \A t \in Threads :
        (Done(t) /\ "recommendations" \in resp[t].body.keys) =>
            {"roadmap", "additional_tips"} \subseteq resp[t].body.keys

\* C3 amended: a result with recommendations has roadmap and
\* additional_tips when the fallback generator built it; a reply that parses
\* is returned without validation, with exactly the keys the reply had.
C3_CompleteWhenFallback ==
    \A t \in Threads :
        (Done(t) /\ "recommendations" \in resp[t].body.keys) =>
            \/ /\ origin[t] = "fallback"
               /\ {"roadmap", "additional_tips"} \subseteq resp[t].body.keys
            \/ /\ origin[t] = "loads"
               /\ resp[t].body.keys = Loads(ExtractJson(reply[t].text)).keys

\* a fallback payload and a complete parsed reply have both been returned
C3_Witness ==
    \E t, u \in Threads :
        /\ Done(t) /\ origin[t] = "fallback" /\ "recommendations" \in resp[t].body.keys
        /\ Done(u) /\ origin[u] = "loads" /\ resp[u].body.keys = FallbackKeys

C6_FallbackWithoutCredential ==
    \A t \in Threads :
        (Done(t) /\ HasSubject(t) /\ ~KeyConfigured) =>
            /\ resp[t].status = 200
            /\ "error" \notin resp[t].body.keys
            /\ Len(resp[t].body.recommendations) = 3
            /\ Len(resp[t].body.roadmap) = 3
            /\ resp[t].body.recommendations[1].course_name
                  = Subject(req[t]) \o " for " \o SkillLevel(req[t]) \o "s"
            /\ resp[t].body.recommendations[1].platform = "Coursera"
            /\ resp[t].body.recommendations[1].url = "https://coursera.org"
            /\ calls[t] = 0

\* C7: with a subject and a credential, a failed model call or an
\* unparseable candidate gives status 200 and a body whose only key is error.
C7_ErrorBodyOnFailure ==
    \A t \in Threads :
        (Done(t) /\ HasSubject(t) /\ KeyConfigured /\ CallFailed(t)) =>
            /\ resp[t].status = 200
            /\ resp[t].body.type = "dict"
            /\ resp[t].body.keys = {"error"}

\* C9: a request calls generate_content at most once, only after the
\* credential was acquired, and never again after a failure: the count of
\* calls changes only when a request arrives or its response has left.
C9_OneShot ==
    /\ [](\A t \in Threads :
            /\ calls[t] <= 1
            /\ calls[t] = 1 =>
                  (KeyConfigured /\ lookups[t] = 1
                     /\ genai_api_key = Get(environ, "GOOGLE_API_KEY", "")))
    /\ [][\A t \in Threads :
            calls'[t] # calls[t] =>
                \/ pc[t] = "idle" /\ pc'[t] = "awaiting" /\ calls'[t] = 1
                \/ pc[t] = "done" /\ pc'[t] = "idle" /\ calls'[t] = 0]_vars

\* a call has failed and a reply has failed to parse, each after one call
C9_Witness ==
    \E t, u \in Threads :
        /\ Done(t) /\ reply[t].kind = "raise" /\ calls[t] = 1
        /\ Done(u) /\ reply[u].kind = "text" /\ origin[u] = "except" /\ calls[u] = 1

\* C10: the response to a request depends only on its inputs, on the
\* credential and on the model's reply to it: two requests with the same
\* body and the same reply get the same response, whatever ran before or
\* beside them, and two fallback payloads for the same subject and skill
\* level are identical.
C10_Independent ==
    \A t, u \in Threads :
        (Done(t) /\ Done(u)) =>
            /\ (req[t] = req[u] /\ reply[t] = reply[u]) => resp[t] = resp[u]
            /\ (origin[t] = "fallback" /\ origin[u] = "fallback"
                  /\ Subject(req[t]) = Subject(req[u])
                  /\ SkillLevel(req[t]) = SkillLevel(req[u]))
               => resp[t].body = resp[u].body

\* two threads hold fallback payloads for the same subject and skill level,
\* asked for by different request bodies
C10_Witness ==
    \E t, u \in Threads :
        /\ t # u
        /\ Done(t) /\ Done(u)
        /\ origin[t] = "fallback" /\ origin[u] = "fallback"
        /\ req[t] # req[u]
        /\ Subject(req[t]) = Subject(req[u])
        /\ SkillLevel(req[t]) = SkillLevel(req[u])

(***************************************************************************)
(* The extraction alone: a reply text composed piece by piece.             *)
(***************************************************************************)
\* the server at rest, no key configured
ServerIdle ==
    /\ environ = {}
    /\ genai_api_key = ""
    /\ pc = [t \in Threads |-> "idle"]
    /\ req = [t \in Threads |-> NoReq]
    /\ sent = [t \in Threads |-> ""]
    /\ reply = [t \in Threads |-> NoReply]
    /\ resp = [t \in Threads |-> NoResp]
    /\ origin = [t \in Threads |-> ""]
    /\ lookups = [t \in Threads |-> 0]
    /\ calls = [t \in Threads |-> 0]
    /\ fallbacks = [t \in Threads |-> 0]

\* pieces the model's reply is composed of
Chunks == {FENCE, "json", BT, "\n", "{}"}

EInit ==
    /\ ServerIdle
    /\ raw = ""
    /\ nchunks = 0
    /\ stage = "compose"
    /\ json_str = ""
    /\ payload = ""
    /\ loaded = <<>>

Compose(c) ==
    /\ stage = "compose"
    /\ nchunks < MaxChunks
    /\ raw' = raw \o c
    /\ nchunks' = nchunks + 1
    /\ UNCHANGED <<stage, json_str, fvars, svars>>

Extract ==
    /\ stage = "compose"
    /\ stage' = "extracted"
    /\ json_str' = ExtractJson(raw)
    /\ UNCHANGED <<raw, nchunks, fvars, svars>>

ENext ==
    \/ \E c \in Chunks : Compose(c)
    \/ Extract

SpecExtract == EInit /\ [][ENext]_vars

(***************************************************************************)
(* One payload delivered three ways: inside a tagged fence, inside an      *)
(* untagged fence, and alone.  Each reply goes through lines 81-89.        *)
(***************************************************************************)
PayloadChunks ==
    {"{\"k\":", "1", "}", ",\"e\":2", "{", "[", "]", "\n", "\f", "\"", BT \o BT, FENCE}

Leads == {"", "Here is the plan:\n"}
Seps == {"", "\n"}

FInit ==
    /\ ServerIdle
    /\ payload = ""
    /\ nchunks = 0
    /\ loaded = <<>>
    /\ raw = ""
    /\ stage = "compose"
    /\ json_str = ""

ComposePayload(c) ==
    /\ loaded = <<>>
    /\ nchunks < MaxPayloadChunks
    /\ payload' = payload \o c
    /\ nchunks' = nchunks + 1
    /\ UNCHANGED <<loaded, raw, stage, json_str, svars>>

\* lines 81-89 on one reply
Resolve(response_text) == Loads(ExtractJson(response_text))

ReplyTagged(lead, sep) ==
    /\ Len(loaded) = 0
    /\ loaded' = <<Resolve(lead \o FENCE_JSON \o sep \o payload \o sep \o FENCE)>>
    /\ UNCHANGED <<payload, nchunks, raw, stage, json_str, svars>>

ReplyUntagged(lead, sep) ==
    /\ Len(loaded) = 1
    /\ loaded' = Append(loaded, Resolve(lead \o FENCE \o sep \o payload \o sep \o FENCE))
    /\ UNCHANGED <<payload, nchunks, raw, stage, json_str, svars>>

ReplyBare ==
    /\ Len(loaded) = 2
    /\ loaded' = Append(loaded, Resolve(payload))
    /\ UNCHANGED <<payload, nchunks, raw, stage, json_str, svars>>

FNext ==
    \/ \E c \in PayloadChunks : ComposePayload(c)
    \/ \E lead \in Leads, sep \in Seps : ReplyTagged(lead, sep)
    \/ \E lead \in Leads, sep \in Seps : ReplyUntagged(lead, sep)
    \/ ReplyBare

SpecFence == FInit /\ [][FNext]_vars

\* what json.loads returned or raised, without the scan position
Parsed(r) == [ok |-> r.ok, type |-> r.type, keys |-> r.keys, canon |-> r.canon]

\* C8: a JSON payload without a triple marker parses to the same value
\* inside a tagged fence, inside an untagged fence and alone.
C8_FenceEquivalence ==
    (Len(loaded) = 3 /\ Loads(payload).ok /\ ~Contains(payload, FENCE)) =>
        /\ loaded[3].ok
        /\ Parsed(loaded[1]) = Parsed(loaded[3])
        /\ Parsed(loaded[2]) = Parsed(loaded[3])

\* a dict payload with surrounding whitespace has been delivered all three ways
C8_Witness ==
    /\ Len(loaded) = 3
    /\ ~Contains(payload, FENCE)
    /\ loaded[3].ok
    /\ loaded[3].type = "dict"
    /\ loaded[3].keys = {"k"}
    /\ loaded[1].canon = "{\"k\":1}"

(***************************************************************************)
(* The three-tier precedence stated on positions of the markers.           *)
(***************************************************************************)
Min(S) == CHOOSE x \in S : \A y \in S : x <= y
Max(S) == CHOOSE x \in S : \A y \in S : x >= y

\* every index at which pat occurs in s
Occ(s, pat) == {i \in 1..(Len(s) - Len(pat) + 1) : SubSeq(s, i, i + Len(pat) - 1) = pat}

\* the plain markers that begin at or after the end of the first open marker
ClosersAfter(s, open) == {q \in Occ(s, FENCE) : q >= Min(Occ(s, open)) + Len(open)}

\* the text from the end of the first open marker to the next plain marker
\* (to the end of the text when none follows)
Between(s, open) ==
    LET a == Min(Occ(s, open)) + Len(open)
    IN  IF ClosersAfter(s, open) = {} THEN SubSeq(s, a, Len(s))
        ELSE SubSeq(s, a, Min(ClosersAfter(s, open)) - 1)

\* s without its leading and trailing whitespace
Trimmed(s) ==
    LET keep == {i \in 1..Len(s) : CharAt(s, i) \notin PyWhitespace}
    IN  IF keep = {} THEN "" ELSE SubSeq(s, Min(keep), Max(keep))

Tier(s) ==
    IF Occ(s, FENCE_JSON) # {} THEN "tagged"
    ELSE IF Occ(s, FENCE) # {} THEN "untagged"
    ELSE "none"

\* C4 as stated: the candidate is the content between the markers, as it
\* stands in the text (tagged fence first, then any fence, else the text).
C4_AsStated ==
    stage = "extracted" =>
        /\ (Tier(raw) = "tagged" /\ ClosersAfter(raw, FENCE_JSON) # {})
               => json_str = Between(raw, FENCE_JSON)
        /\ (Tier(raw) = "untagged" /\ ClosersAfter(raw, FENCE) # {})
               => json_str = Between(raw, FENCE)
        /\ Tier(raw) = "none" => json_str = raw

\* the content of the first tagged block as the two splits cut it: from the
\* end of the first tagged marker to the next tagged marker (the end of the
\* text when none follows), cut short at the first plain marker lying
\* wholly inside that stretch
TaggedContent(s) ==
    LET a == Min(Occ(s, FENCE_JSON)) + Len(FENCE_JSON)
        tagged == {q \in Occ(s, FENCE_JSON) : q >= a}
        lim == IF tagged = {} THEN Len(s) ELSE Min(tagged) - 1
        plain == {q \in Occ(s, FENCE) : q >= a /\ q + Len(FENCE) - 1 <= lim}
    IN  SubSeq(s, a, IF plain = {} THEN lim ELSE Min(plain) - 1)

\* C4 amended: the candidate JSON string is chosen by the three-tier
\* precedence.  (a) With a tagged marker in the text it is the content from
\* the first tagged marker to the next plain marker that ends before any
\* further tagged marker begins, else to that further tagged marker, else
\* to the end of the text, even when an untagged block occurs earlier;
\* (b) otherwise, with a plain marker in the text, the content from the
\* first plain marker to the next one, else to the end of the text; in (a)
\* and (b) leading and trailing whitespace is removed; (c) otherwise the
\* raw text unchanged.
C4_Precedence ==
    stage = "extracted" =>
        /\ Tier(raw) = "tagged" => json_str = Trimmed(TaggedContent(raw))
        /\ Tier(raw) = "untagged" => json_str = Trimmed(Between(raw, FENCE))
        /\ Tier(raw) = "none" => json_str = raw

\* an untagged fenced block precedes the tagged one, and the tagged block,
\* padded with whitespace and closed, is the one chosen
C4_Witness ==
    /\ stage = "extracted"
    /\ Tier(raw) = "tagged"
    /\ Min(Occ(raw, FENCE)) + Len(FENCE) <= Min(Occ(raw, FENCE_JSON))
    /\ ClosersAfter(raw, FENCE_JSON) # {}
    /\ Between(raw, FENCE_JSON) = "\n{}"
    /\ json_str = "{}"
====
